---- MODULE Spec2Model ----
(***************************************************************************)
(* Model of the GitHub tool handlers of mcp-development-workflow:          *)
(* list_github_issues (the paginator), update_github_issue (the PATCH      *)
(* payload builder), create_github_issue, get_github_issue,                *)
(* list_github_repositories and get_github_organisations (single page      *)
(* listings).  Under Spec one behaviour is one tool invocation against a   *)
(* remote service whose answers are the nondeterministic input; LoopSpec   *)
(* is the paginator loop under fairness, PairSpec two invocations          *)
(* interleaved.                                                            *)
(***************************************************************************)
EXTENDS Integers, Sequences, FiniteSets, TLC

VARIABLES env, server, tool, pc, params,
          allIssues, page, hasMorePages, totalAvailable, resultsPerPage,
          updatePayload, requestBody, requests, responses, result,
          frames, heap

vars == <<env, server, tool, pc, params,
          allIssues, page, hasMorePages, totalAvailable, resultsPerPage,
          updatePayload, requestBody, requests, responses, result,
          frames, heap>>

\* the state of two interleaved invocations; used by PairSpec only
pairVars == <<frames, heap>>

listVars == <<allIssues, page, hasMorePages, totalAvailable, resultsPerPage>>

-----------------------------------------------------------------------------
(* Bounds of the model.                                                    *)

\* largest number of items a faithful server holds (besides the 45 of Scenario A)
MaxAvail == 7
\* largest max_results tried (besides the 25 of Scenario B)
MaxCap == 5
\* number of pages after which the arbitrary server stops offering more
MaxPages == 3

-----------------------------------------------------------------------------
(* JavaScript values: undefined, null, numbers, strings, arrays.           *)

Undefined == [t |-> "undefined"]
Null == [t |-> "null"]
Num(n) == [t |-> "number", v |-> n]
Str(s) == [t |-> "string", v |-> s]
Arr(a) == [t |-> "array", v |-> a]
\* a string whose characters matter, kept as the sequence of them
Text(chars) == [t |-> "text", v |-> chars]

\* ToBoolean, as used by `if (x)`, `x && y`, `x || y`, `x ? a : b`
Truthy(x) ==
    CASE x.t = "undefined" -> FALSE
      [] x.t = "null" -> FALSE
      [] x.t = "number" -> x.v # 0
      [] x.t = "string" -> x.v # ""
      [] x.t = "text" -> x.v # <<>>
      [] OTHER -> TRUE

Min(a, b) == IF a <= b THEN a ELSE b
Max(a, b) == IF a >= b THEN a ELSE b

\* slice() where splice() was meant: the array is left as it was
SpliceNothing(arr, start) == arr

\* Array.prototype.splice(start) with one argument: everything from the
\* (relative) index start on is removed; what stays is returned here.
Splice(arr, start) ==
    LET len == Len(arr)
        actualStart == IF start < 0 THEN Max(len + start, 0) ELSE Min(start, len)
    IN  SubSeq(arr, 1, actualStart)

\* unshift(...items) where push(...items) was meant
PushFront(arr, items) == items \o arr

\* Array.prototype.push(...items)
Push(arr, items) == arr \o items

-----------------------------------------------------------------------------
(* The remote service.  A faithful server holds server.avail items,        *)
(* numbered 1..avail, and pages them as the REST API documents; an         *)
(* arbitrary server answers every request with any page it likes.          *)

CeilDiv(a, b) == (a + b - 1) \div b

\* the items of page p when the page holds n of them, P per page
PageItems(p, P, n) == [i \in 1..n |-> (p - 1) * P + i]

\* the Link header: null, or the relations it carries: whether there is a
\* rel="next", the page number of the rel="last" URL (0: no such relation),
\* and the query parameter that URL ends in, right before `>`
LinkTails == {"page", "per_page", "other"}
NoLink == [present |-> FALSE, next |-> FALSE, last |-> 0, tail |-> "page"]
LinkEndingIn(next, last, tail) ==
    [present |-> TRUE, next |-> next, last |-> last, tail |-> tail]
\* `<...?per_page=P&page=N>; rel="last"`, the form of the REST API's guide
Link(next, last) == LinkEndingIn(next, last, "page")

Statuses == {404, 500}
ErrorBodies == {"message", "nomessage", "notjson"}

FetchRejected == [kind |-> "throw", ok |-> FALSE, status |-> 0, body |-> "none",
                  items |-> <<>>, link |-> NoLink]
HttpError(status, body) == [kind |-> "http", ok |-> FALSE, status |-> status, body |-> body,
                            items |-> <<>>, link |-> NoLink]
HttpBadBody == [kind |-> "http", ok |-> TRUE, status |-> 200, body |-> "notjson",
                items |-> <<>>, link |-> NoLink]
HttpPage(items, link) == [kind |-> "http", ok |-> TRUE, status |-> 200, body |-> "array",
                          items |-> items, link |-> link]

FailureResponses ==
    {FetchRejected, HttpBadBody} \cup {HttpError(s, b) : s \in Statuses, b \in ErrorBodies}

FaithfulPage(p, P) ==
    LET n == Min(P, Max(0, server.avail - (p - 1) * P))
        link == IF p * P < server.avail THEN Link(TRUE, CeilDiv(server.avail, P))
                ELSE IF p > 1 THEN Link(FALSE, 0)
                ELSE NoLink
    IN  HttpPage(PageItems(p, P, n), link)

\* a page may hold fewer items than asked for, and nothing keeps the service
\* from sending one more
PageSizes(P) == {0, 1, P - 1, P, P + 1} \cap (0..P + 1)
\* a service writes its URLs in one way: server.tail
Links == {NoLink} \cup {LinkEndingIn(n, l, server.tail) : n \in BOOLEAN, l \in {0, 2}}

ArbitraryPages(p, P) ==
    {HttpPage(PageItems(p, P, n), l) : n \in PageSizes(P), l \in Links}

\* the answers the service may give to a GET of page p with per_page P
ListResponses(p, P) ==
    FailureResponses \cup
    (IF server.mode = "faithful" THEN {FaithfulPage(p, P)} ELSE ArbitraryPages(p, P))

\* the answer to a PATCH that succeeded: the updated issue
HttpUpdated == [kind |-> "http", ok |-> TRUE, status |-> 200, body |-> "object",
                items |-> <<>>, link |-> NoLink]

\* the answer to a POST that succeeded: the created issue
HttpCreated == [kind |-> "http", ok |-> TRUE, status |-> 201, body |-> "object",
                items |-> <<>>, link |-> NoLink]

\* the answer to the GET of one issue that succeeded
HttpIssue == [kind |-> "http", ok |-> TRUE, status |-> 200, body |-> "object",
              items |-> <<>>, link |-> NoLink]

ListingTools == {"list_github_issues", "list_github_repositories",
                 "get_github_organisations"}

\* the answers the service may give to a request
AnswersTo(req) ==
    IF req.tool \in ListingTools THEN ListResponses(req.page, req.per_page)
    ELSE IF req.method = "PATCH" THEN FailureResponses \cup {HttpUpdated}
    ELSE IF req.method = "POST" THEN FailureResponses \cup {HttpCreated}
    ELSE FailureResponses \cup {HttpIssue}

\* the answers the service may give to the request in flight
Answers ==
    IF pc # "fetch" THEN {}
    ELSE AnswersTo(requests[Len(requests)])

-----------------------------------------------------------------------------
(* Results: the text of the single content item, kept in its parts.        *)

NoResult == [kind |-> "none", status |-> 0, message |-> "", count |-> 0,
             items |-> <<>>, more |-> FALSE, estimated |-> Null]

ConfigError == [NoResult EXCEPT !.kind = "config",
                !.message = "GITHUB_AUTH_TOKEN environment variable is not set"]

\* a credential check that never fires
TokenMissingNever == FALSE

\* `!env.GITHUB_AUTH_TOKEN`
TokenMissing == ~env.GITHUB_AUTH_TOKEN

\* an upstream error that also reports what was collected so far
UpstreamErrorWithItems(status, body) ==
    [kind |-> "upstream", status |-> status,
     message |-> IF body = "message" THEN "message" ELSE "raw body",
     count |-> Len(allIssues), items |-> allIssues, more |-> FALSE, estimated |-> Null]

\* `${response.status} - ${errorData.message || JSON.stringify(errorData)}`
UpstreamError(status, body) ==
    [NoResult EXCEPT !.kind = "upstream", !.status = status,
                     !.message = IF body = "message" THEN "message" ELSE "raw body"]

\* no catch block: the exception leaves the handler and no text is returned
Uncaught(what) == [NoResult EXCEPT !.kind = "fault", !.message = what]

\* the catch block: `${error instanceof Error ? error.message : String(error)}`
CaughtError(what) == [NoResult EXCEPT !.kind = "exception", !.message = what]

-----------------------------------------------------------------------------
(* list_github_issues                                                      *)

\* The handlers are exported functions whose per_page and max_results are
\* typed `number`: 101 is a per_page the schema would refuse, -1 and 0 are
\* max_results the schema lets through.
PerPageValues == {Undefined} \cup {Num(n) : n \in {1, 2, 3, 20, 100, 101}}
MaxResultsValues == {Undefined} \cup {Num(n) : n \in (-1..MaxCap) \cup {25}}

DefaultPerPage == 30
MaxPerPage == 100

\* `per_page = 30` in the parameter list
PerPageOrDefault(pp) == IF pp = Undefined THEN DefaultPerPage ELSE pp.v

\* per_page passed on as it came
EffectivePerPageUnclamped(per_page) == per_page

\* `Math.min(per_page, 100)`
EffectivePerPage(per_page) == Min(per_page, MaxPerPage)

\* any Link header taken as the promise of a next page
HasNextIfPresent(linkHeader) == linkHeader.present

\* `linkHeader ? linkHeader.includes('rel="next"') : false`
HasNext(linkHeader) == IF linkHeader.present THEN linkHeader.next ELSE FALSE

\* `linkHeader.match(/page=(\d+)>; rel="last"/)`, then parseInt(lastMatch[1]):
\* the digits right before `>; rel="last"` when `page=` precedes them, which
\* it also does in `per_page=`; 0 stands for no match
LastMatch(linkHeader, perPage) ==
    IF ~linkHeader.present \/ linkHeader.last = 0 THEN 0
    ELSE CASE linkHeader.tail = "page" -> linkHeader.last
           [] linkHeader.tail = "per_page" -> perPage
           [] OTHER -> 0

\* `if (linkHeader && totalAvailable === null) { ... }`
EstimateTotal(linkHeader, total, perPage) ==
    IF linkHeader.present /\ total = Null /\ LastMatch(linkHeader, perPage) # 0
    THEN Num(LastMatch(linkHeader, perPage) * perPage)
    ELSE total

\* `>` where `>=` was meant
CapReachedStrict(max_results, length) == Truthy(max_results) /\ length > max_results.v

\* `max_results !== undefined && allIssues.length >= max_results`
CapReachedIfDefined(max_results, length) ==
    max_results # Undefined /\ length >= max_results.v

\* `max_results && allIssues.length >= max_results`
CapReached(max_results, length) == Truthy(max_results) /\ length >= max_results.v

\* only the Link header consulted: `if (!hasMorePages) break`
LastPageByLinkOnly(more, length, perPage) == ~more

\* `<=` where `<` was meant
LastPageInclusive(more, length, perPage) == ~more \/ length <= perPage

\* `!hasMorePages || issues.length < resultsPerPage`
LastPage(more, length, perPage) == ~more \/ length < perPage

\* a page counter that is never advanced
NextPageStay(p) == p

\* a page counter that skips a page
NextPageSkip(p) == p + 2

\* `page++`
NextPage(p) == p + 1

ListRequest(p, P) ==
    [tool |-> "list_github_issues", method |-> "GET", accept |-> "v3", page |-> p,
     per_page |-> P, body |-> <<>>]

ListIssuesCall(pp, mr) ==
    /\ pc = "idle"
    /\ tool' = "list_github_issues"
    /\ params' = [per_page |-> pp, max_results |-> mr]
    /\ IF TokenMissing
       THEN /\ result' = ConfigError
            /\ pc' = "done"
            /\ UNCHANGED <<listVars, requests>>
       ELSE /\ allIssues' = <<>>
            /\ page' = 1
            /\ hasMorePages' = FALSE
            /\ totalAvailable' = Null
            /\ resultsPerPage' = EffectivePerPage(PerPageOrDefault(pp))
            /\ requests' = Append(requests, ListRequest(1, resultsPerPage'))
            /\ pc' = "fetch"
            /\ UNCHANGED result
    /\ UNCHANGED <<pairVars, requestBody, env, server, updatePayload, responses>>

\* the estimate reported whenever there is one
ListResultAlwaysEstimated(all, more, total) ==
    [NoResult EXCEPT !.kind = "ok", !.count = Len(all), !.items = all, !.more = more,
                     !.estimated = total]

\* the text returned after the loop
ListResult(all, more, total) ==
    [NoResult EXCEPT !.kind = "ok", !.count = Len(all), !.items = all, !.more = more,
                     !.estimated = IF Truthy(total) /\ ~Truthy(params.max_results)
                                   THEN total ELSE Null]

\* fetch() rejects: the catch block answers
ListIssuesFetchRejected ==
    /\ pc = "fetch" /\ tool = "list_github_issues"
    /\ FetchRejected \in Answers
    /\ responses' = Append(responses, FetchRejected)
    /\ result' = CaughtError("fetch failed")
    /\ pc' = "done"
    /\ UNCHANGED <<pairVars, requestBody, env, server, tool, params, listVars, updatePayload, requests>>

\* !response.ok, and a body response.json() cannot decode
ListIssuesNotOk(resp) ==
    /\ pc = "fetch" /\ tool = "list_github_issues"
    /\ resp \in Answers
    /\ resp.kind = "http"
    /\ ~resp.ok \/ resp.body # "array"
    /\ responses' = Append(responses, resp)
    /\ result' = IF resp.body = "notjson" THEN CaughtError("invalid json")
                 ELSE UpstreamError(resp.status, resp.body)
    /\ pc' = "done"
    /\ UNCHANGED <<pairVars, requestBody, env, server, tool, params, listVars, updatePayload, requests>>

\* one pass of the loop body after a page arrived
ListIssuesPage(resp) ==
    /\ pc = "fetch" /\ tool = "list_github_issues"
    /\ resp \in Answers
    /\ resp.kind = "http" /\ resp.ok /\ resp.body = "array"
    /\ responses' = Append(responses, resp)
    /\ LET issues == resp.items
           pushed == Push(allIssues, issues)
           linkHeader == resp.link
           more == HasNext(linkHeader)
           total == EstimateTotal(linkHeader, totalAvailable, resultsPerPage)
           max_results == params.max_results
       IN  /\ totalAvailable' = total
           /\ IF CapReached(max_results, Len(pushed))
              THEN /\ allIssues' = Splice(pushed, max_results.v)
                   /\ hasMorePages' = TRUE
                   /\ result' = ListResult(allIssues', TRUE, total)
                   /\ pc' = "done"
                   /\ UNCHANGED <<page, requests>>
              ELSE /\ allIssues' = pushed
                   /\ hasMorePages' = more
                   /\ IF LastPage(more, Len(issues), resultsPerPage)
                      THEN /\ result' = ListResult(pushed, more, total)
                           /\ pc' = "done"
                           /\ UNCHANGED <<page, requests>>
                      ELSE \* bound: an arbitrary server is followed for MaxPages pages
                           /\ page < MaxPages \/ server.mode = "faithful"
                           /\ page' = NextPage(page)
                           /\ requests' = Append(requests, ListRequest(page', resultsPerPage))
                           /\ UNCHANGED <<pc, result>>
    /\ UNCHANGED <<pairVars, requestBody, env, server, tool, params, resultsPerPage, updatePayload>>

-----------------------------------------------------------------------------
(* update_github_issue                                                     *)

Fields == {"title", "body", "state", "state_reason", "labels", "assignees", "milestone"}

TitleValues == {Undefined, Str(""), Str("t")}
BodyValues == {Undefined, Str("b")}
StateValues == {Undefined, Str("open"), Str("closed")}
StateReasonValues == {Undefined, Str("completed"), Str("reopened")}
LabelsValues == {Undefined, Arr(<<>>), Arr(<<"bug">>)}
AssigneesValues == {Undefined, Arr(<<"octocat">>)}
MilestoneValues == {Undefined, Null, Num(0), Num(1)}

UpdateParams ==
    [title : TitleValues, body : BodyValues, state : StateValues,
     state_reason : StateReasonValues, labels : LabelsValues,
     assignees : AssigneesValues, milestone : MilestoneValues]

\* `{}` and `obj.key = val`
EmptyObject == <<>>
Assign(obj, key, val) ==
    [k \in DOMAIN obj \cup {key} |-> IF k = key THEN val ELSE obj[k]]

\* Object.keys(obj)
ObjectKeys(obj) == DOMAIN obj

\* JSON.stringify(obj): a key whose value is undefined is left out
JSONStringify(obj) ==
    [k \in {j \in DOMAIN obj : obj[j] # Undefined} |-> obj[k]]

\* `if (p.f != undefined)`: the loose comparison also holds back null
AssignIfNotNullish(obj, p, f) ==
    IF p[f] # Undefined /\ p[f] # Null THEN Assign(obj, f, p[f]) ELSE obj

\* `if (p.f)` where `if (p.f !== undefined)` was meant
AssignIfTruthy(obj, p, f) ==
    IF Truthy(p[f]) THEN Assign(obj, f, p[f]) ELSE obj

\* `if (p.f !== undefined) updatePayload.f = p.f`
AssignIfDefined(obj, p, f) ==
    IF p[f] # Undefined THEN Assign(obj, f, p[f]) ELSE obj

\* `if (state_reason !== undefined)`, whatever the state
AssignStateReasonAlways(obj, p) ==
    IF p.state_reason # Undefined THEN Assign(obj, "state_reason", p.state_reason) ELSE obj

\* a state_reason defaulted to "completed" whenever the issue is closed
AssignStateReasonDefault(obj, p) ==
    IF p.state = Str("closed")
    THEN Assign(obj, "state_reason",
                IF p.state_reason # Undefined THEN p.state_reason ELSE Str("completed"))
    ELSE obj

\* `if (state_reason !== undefined && state === "closed")`
AssignStateReason(obj, p) ==
    IF p.state_reason # Undefined /\ p.state = Str("closed")
    THEN Assign(obj, "state_reason", p.state_reason)
    ELSE obj

BuildUpdatePayload(p) ==
    LET p1 == AssignIfDefined(EmptyObject, p, "title")
        p2 == AssignIfDefined(p1, p, "body")
        p3 == AssignIfDefined(p2, p, "state")
        p4 == AssignStateReason(p3, p)
        p5 == AssignIfDefined(p4, p, "labels")
        p6 == AssignIfDefined(p5, p, "assignees")
        p7 == AssignIfDefined(p6, p, "milestone")
    IN  p7

\* `updatePayload.length === 0`, which no object satisfies
NothingToUpdateNever(payload) == FALSE

\* `Object.keys(updatePayload).length === 0`
NothingToUpdate(payload) == Cardinality(ObjectKeys(payload)) = 0

NoFieldsError == [NoResult EXCEPT !.kind = "noop", !.message = "No fields provided to update"]

UpdateRequest(payload) ==
    [tool |-> "update_github_issue", method |-> "PATCH", accept |-> "v3", page |-> 0,
     per_page |-> 0, body |-> JSONStringify(payload)]

\* the fields the success text lists as updated, in the order it lists them
UpdatedFields(p) ==
    LET order == <<"title", "body", "state", "state_reason", "labels", "assignees",
                   "milestone">>
        listed(f) == IF f = "state_reason"
                     THEN p.state_reason # Undefined /\ p.state = Str("closed")
                     ELSE p[f] # Undefined
    IN  SelectSeq(order, listed)

UpdateIssueCall(p) ==
    /\ pc = "idle"
    /\ tool' = "update_github_issue"
    /\ params' = p
    /\ IF TokenMissing
       THEN /\ result' = ConfigError
            /\ pc' = "done"
            /\ UNCHANGED <<updatePayload, requests>>
       ELSE /\ updatePayload' = BuildUpdatePayload(p)
            /\ IF NothingToUpdate(updatePayload')
               THEN /\ result' = NoFieldsError
                    /\ pc' = "done"
                    /\ UNCHANGED requests
               ELSE /\ requests' = Append(requests, UpdateRequest(updatePayload'))
                    /\ pc' = "fetch"
                    /\ UNCHANGED result
    /\ UNCHANGED <<pairVars, requestBody, env, server, listVars, responses>>

UpdateIssueResponse(resp) ==
    /\ pc = "fetch" /\ tool = "update_github_issue"
    /\ resp \in Answers
    /\ responses' = Append(responses, resp)
    /\ result' = IF resp.kind = "throw" THEN CaughtError("fetch failed")
                 ELSE IF resp.body = "notjson" THEN CaughtError("invalid json")
                 ELSE IF ~resp.ok THEN UpstreamError(resp.status, resp.body)
                 ELSE [NoResult EXCEPT !.kind = "ok", !.message = "Successfully updated",
                                       !.items = UpdatedFields(params)]
    /\ pc' = "done"
    /\ UNCHANGED <<pairVars, requestBody, env, server, tool, params, listVars, updatePayload, requests>>

-----------------------------------------------------------------------------
(* create_github_issue                                                     *)

CreateTitleValues == {Str(""), Str("t")}
CreateBodyValues == {Undefined, Str(""), Str("b")}
CreateAssigneesValues == {Undefined, Arr(<<>>), Arr(<<"octocat">>)}
CreateLabelsValues == {Undefined, Arr(<<>>), Arr(<<"bug">>)}
CreateMilestoneValues == {Undefined, Num(0), Num(1)}

CreateFields == {"title", "body", "assignees", "labels", "milestone"}

CreateParams ==
    [title : CreateTitleValues, body : CreateBodyValues,
     assignees : CreateAssigneesValues, labels : CreateLabelsValues,
     milestone : CreateMilestoneValues]

\* `if (p.f) requestBody.f = p.f`
AssignIfSet(obj, p, f) ==
    IF Truthy(p[f]) THEN Assign(obj, f, p[f]) ELSE obj

\* `const requestBody: any = { title }` and the four conditional assignments
BuildRequestBody(p) ==
    LET b0 == Assign(EmptyObject, "title", p.title)
        b1 == AssignIfSet(b0, p, "body")
        b2 == AssignIfSet(b1, p, "assignees")
        b3 == AssignIfSet(b2, p, "labels")
        b4 == AssignIfSet(b3, p, "milestone")
    IN  b4

CreateRequest(payload) ==
    [tool |-> "create_github_issue", method |-> "POST", accept |-> "v3", page |-> 0,
     per_page |-> 0, body |-> JSONStringify(payload)]

\* the text a single request handler returns for an answer
SingleResult(resp, success) ==
    IF resp.kind = "throw" THEN CaughtError("fetch failed")
    ELSE IF resp.body = "notjson" THEN CaughtError("invalid json")
    ELSE IF ~resp.ok THEN UpstreamError(resp.status, resp.body)
    ELSE [NoResult EXCEPT !.kind = "ok", !.message = success]

CreateIssueCall(p) ==
    /\ pc = "idle"
    /\ tool' = "create_github_issue"
    /\ params' = p
    /\ IF TokenMissing
       THEN /\ result' = ConfigError
            /\ pc' = "done"
            /\ UNCHANGED <<requestBody, requests>>
       ELSE /\ requestBody' = BuildRequestBody(p)
            /\ requests' = Append(requests, CreateRequest(requestBody'))
            /\ pc' = "fetch"
            /\ UNCHANGED result
    /\ UNCHANGED <<pairVars, env, server, listVars, updatePayload, responses>>

CreateIssueResponse(resp) ==
    /\ pc = "fetch" /\ tool = "create_github_issue"
    /\ resp \in Answers
    /\ responses' = Append(responses, resp)
    /\ result' = SingleResult(resp, "Successfully created issue")
    /\ pc' = "done"
    /\ UNCHANGED <<pairVars, requestBody, env, server, tool, params, listVars, updatePayload, requests>>

-----------------------------------------------------------------------------
(* get_github_issue                                                        *)

MediaTypeValues == {Undefined, Str("raw"), Str("full")}

\* `application/vnd.github.v3+json`, or the media type asked for
AcceptHeader(media_type) == IF Truthy(media_type) THEN media_type.v ELSE "v3"

GetRequest(media_type) ==
    [tool |-> "get_github_issue", method |-> "GET", accept |-> AcceptHeader(media_type),
     page |-> 0, per_page |-> 0, body |-> <<>>]

GetIssueCall(media_type) ==
    /\ pc = "idle"
    /\ tool' = "get_github_issue"
    /\ params' = [media_type |-> media_type]
    /\ IF TokenMissing
       THEN /\ result' = ConfigError
            /\ pc' = "done"
            /\ UNCHANGED requests
       ELSE /\ requests' = Append(requests, GetRequest(media_type))
            /\ pc' = "fetch"
            /\ UNCHANGED result
    /\ UNCHANGED <<pairVars, requestBody, env, server, listVars, updatePayload, responses>>

GetIssueResponse(resp) ==
    /\ pc = "fetch" /\ tool = "get_github_issue"
    /\ resp \in Answers
    /\ responses' = Append(responses, resp)
    /\ result' = SingleResult(resp, "Issue")
    /\ pc' = "done"
    /\ UNCHANGED <<pairVars, requestBody, env, server, tool, params, listVars, updatePayload, requests>>

-----------------------------------------------------------------------------
(* list_github_repositories and get_github_organisations: one page each    *)

PageValues == {Undefined, Num(1), Num(2)}

DefaultPage == 1

\* a page parameter that is ignored
PageAlwaysFirst(pg) == DefaultPage

\* `page = 1` in the parameter list
PageOrDefault(pg) == IF pg = Undefined THEN DefaultPage ELSE pg.v

PageRequest(t, pg, pp) ==
    [tool |-> t, method |-> "GET", accept |-> "v3", page |-> pg, per_page |-> pp,
     body |-> <<>>]

\* the text a single page listing returns for an answer
PageResult(resp) ==
    IF resp.kind = "throw" THEN CaughtError("fetch failed")
    ELSE IF resp.body = "notjson" THEN CaughtError("invalid json")
    ELSE IF ~resp.ok THEN UpstreamError(resp.status, resp.body)
    ELSE [NoResult EXCEPT !.kind = "ok", !.count = Len(resp.items), !.items = resp.items,
                          !.more = HasNext(resp.link)]

ListRepositoriesCall(pp, pg) ==
    /\ pc = "idle"
    /\ tool' = "list_github_repositories"
    /\ params' = [per_page |-> pp, page |-> pg]
    /\ IF TokenMissing
       THEN /\ result' = ConfigError
            /\ pc' = "done"
            /\ UNCHANGED requests
       ELSE /\ requests' = Append(requests,
                   PageRequest(tool', PageOrDefault(pg), PerPageOrDefault(pp)))
            /\ pc' = "fetch"
            /\ UNCHANGED result
    /\ UNCHANGED <<pairVars, requestBody, env, server, listVars, updatePayload, responses>>

ListRepositoriesResponse(resp) ==
    /\ pc = "fetch" /\ tool = "list_github_repositories"
    /\ resp \in Answers
    /\ responses' = Append(responses, resp)
    /\ result' = PageResult(resp)
    /\ pc' = "done"
    /\ UNCHANGED <<pairVars, requestBody, env, server, tool, params, listVars, updatePayload, requests>>

GetOrganisationsCall(pp, pg) ==
    /\ pc = "idle"
    /\ tool' = "get_github_organisations"
    /\ params' = [per_page |-> pp, page |-> pg]
    /\ IF TokenMissing
       THEN /\ result' = ConfigError
            /\ pc' = "done"
            /\ UNCHANGED requests
       ELSE /\ requests' = Append(requests,
                   PageRequest(tool', PageOrDefault(pg), PerPageOrDefault(pp)))
            /\ pc' = "fetch"
            /\ UNCHANGED result
    /\ UNCHANGED <<pairVars, requestBody, env, server, listVars, updatePayload, responses>>

GetOrganisationsResponse(resp) ==
    /\ pc = "fetch" /\ tool = "get_github_organisations"
    /\ resp \in Answers
    /\ responses' = Append(responses, resp)
    /\ result' = PageResult(resp)
    /\ pc' = "done"
    /\ UNCHANGED <<pairVars, requestBody, env, server, tool, params, listVars, updatePayload, requests>>

-----------------------------------------------------------------------------

Servers == {[mode |-> "faithful", avail |-> a, tail |-> "page"] :
                a \in (0..MaxAvail) \cup {45}}
           \cup {[mode |-> "arbitrary", avail |-> 0, tail |-> t] : t \in LinkTails}

Init ==
    /\ env \in {[GITHUB_AUTH_TOKEN |-> b] : b \in BOOLEAN}
    /\ server \in Servers
    /\ tool = "none"
    /\ pc = "idle"
    /\ params = <<>>
    /\ allIssues = <<>>
    /\ page = 0
    /\ hasMorePages = FALSE
    /\ totalAvailable = Null
    /\ resultsPerPage = 0
    /\ updatePayload = <<>>
    /\ requestBody = <<>>
    /\ frames = <<>>
    /\ heap = <<>>
    /\ requests = <<>>
    /\ responses = <<>>
    /\ result = NoResult

Next ==
    \/ \E pp \in PerPageValues, mr \in MaxResultsValues : ListIssuesCall(pp, mr)
    \/ ListIssuesFetchRejected
    \/ \E resp \in Answers : ListIssuesNotOk(resp)
    \/ \E resp \in Answers : ListIssuesPage(resp)
    \/ \E p \in UpdateParams : UpdateIssueCall(p)
    \/ \E resp \in Answers : UpdateIssueResponse(resp)
    \/ \E pp \in PerPageValues, pg \in PageValues : ListRepositoriesCall(pp, pg)
    \/ \E resp \in Answers : ListRepositoriesResponse(resp)
    \/ \E pp \in PerPageValues, pg \in PageValues : GetOrganisationsCall(pp, pg)
    \/ \E resp \in Answers : GetOrganisationsResponse(resp)
    \/ \E p \in CreateParams : CreateIssueCall(p)
    \/ \E resp \in Answers : CreateIssueResponse(resp)
    \/ \E mt \in MediaTypeValues : GetIssueCall(mt)
    \/ \E resp \in Answers : GetIssueResponse(resp)

Spec == Init /\ [][Next]_vars

-----------------------------------------------------------------------------
(* The paginator loop with its two await points told apart: `await fetch`  *)
(* (the status line and the headers arrive) and `await response.json()`    *)
(* (the body is decoded and the rest of the loop body runs).  The service  *)
(* answers every request, and a settled promise's continuation is run by   *)
(* the event loop: LoopSpec is weakly fair in its steps.                   *)

\* the page sizes and the caps of the loop study
LoopPerPageValues == {Undefined, Num(1), Num(2)}
LoopMaxResultsValues == {Undefined, Num(0), Num(1), Num(MaxCap)}

\* Without a cap the loop reads of its state only the page that arrived and
\* resultsPerPage; page, allIssues and the histories of an arbitrary server
\* are then counted up to MaxPages and kept there.
Unbounded == server.mode = "arbitrary" /\ ~Truthy(params.max_results)

\* `await fetch(...)` settles with a response
LoopFetched(resp) ==
    /\ pc = "fetch" /\ tool = "list_github_issues"
    /\ resp \in Answers
    /\ resp.kind = "http"
    /\ responses' = IF Unbounded /\ Len(responses) >= MaxPages
                    THEN [responses EXCEPT ![Len(responses)] = resp]
                    ELSE Append(responses, resp)
    /\ pc' = "json"
    /\ UNCHANGED <<pairVars, requestBody, env, server, tool, params, listVars,
                   updatePayload, requests, result>>

\* `await response.json()` settles and the loop body runs to the next fetch
\* or to the return
LoopBody ==
    /\ pc = "json" /\ tool = "list_github_issues"
    /\ LET resp == responses[Len(responses)]
           issues == resp.items
           pushed == Push(allIssues, issues)
           linkHeader == resp.link
           more == HasNext(linkHeader)
           total == EstimateTotal(linkHeader, totalAvailable, resultsPerPage)
           max_results == params.max_results
       IN  IF resp.body = "notjson"
           THEN /\ result' = CaughtError("invalid json")
                /\ pc' = "done"
                /\ UNCHANGED <<listVars, requests>>
           ELSE IF ~resp.ok
           THEN /\ result' = UpstreamError(resp.status, resp.body)
                /\ pc' = "done"
                /\ UNCHANGED <<listVars, requests>>
           ELSE /\ totalAvailable' = total
                /\ UNCHANGED resultsPerPage
                /\ IF CapReached(max_results, Len(pushed))
                   THEN /\ allIssues' = Splice(pushed, max_results.v)
                        /\ hasMorePages' = TRUE
                        /\ result' = ListResult(allIssues', TRUE, total)
                        /\ pc' = "done"
                        /\ UNCHANGED <<page, requests>>
                   ELSE /\ hasMorePages' = more
                        /\ IF LastPage(more, Len(issues), resultsPerPage)
                           THEN /\ allIssues' = pushed
                                /\ result' = ListResult(pushed, more, total)
                                /\ pc' = "done"
                                /\ UNCHANGED <<page, requests>>
                           ELSE IF Unbounded /\ page >= MaxPages
                           THEN /\ pc' = "fetch"
                                /\ UNCHANGED <<allIssues, page, requests, result>>
                           ELSE /\ allIssues' = pushed
                                /\ page' = NextPage(page)
                                /\ requests' = Append(requests,
                                                      ListRequest(page', resultsPerPage))
                                /\ pc' = "fetch"
                                /\ UNCHANGED result
    /\ UNCHANGED <<pairVars, requestBody, env, server, tool, params, updatePayload, responses>>

LoopNext ==
    \/ \E pp \in LoopPerPageValues, mr \in LoopMaxResultsValues : ListIssuesCall(pp, mr)
    \/ ListIssuesFetchRejected
    \/ \E resp \in Answers : LoopFetched(resp)
    \/ LoopBody

LoopSpec == Init /\ [][LoopNext]_vars /\ WF_vars(LoopNext)

-----------------------------------------------------------------------------
(* Two invocations interleaved.  MyMCP.init registers each tool with a     *)
(* callback that calls the handler afresh, and a handler keeps its state   *)
(* in `const`/`let` locals of the call: frames[i] is invocation i as the   *)
(* caller sees it, heap[Slot(i)] holds the locals of its call.  A handler  *)
(* gives up control at its awaits only; between `await fetch` and `await   *)
(* response.json()` it touches no local, so one answer is one step.        *)

\* largest number of items a faithful server holds in the study of pairs
MaxPairAvail == 3
\* number of pages an arbitrary server is followed for in the study of pairs
MaxPairPages == 2

Invocations == 1..2

PairServers == {[mode |-> "faithful", avail |-> a, tail |-> "page"] :
                    a \in 0..MaxPairAvail}
               \cup {[mode |-> "arbitrary", avail |-> 0, tail |-> "page"]}

PairPerPageValues == {Num(1), Num(2)}
PairMaxResultsValues == {Undefined, Num(2)}
PairUpdateParams ==
    {p \in UpdateParams : /\ p.body = Undefined /\ p.state = Undefined
                          /\ p.state_reason = Undefined /\ p.labels = Undefined
                          /\ p.assignees = Undefined}

IdleFrame == [tool |-> "none", pc |-> "idle", params |-> <<>>, requests |-> <<>>,
              responses |-> <<>>, result |-> NoResult]

NoLocals == [allIssues |-> <<>>, page |-> 0, hasMorePages |-> FALSE,
             totalAvailable |-> Null, resultsPerPage |-> 0, updatePayload |-> <<>>]

\* locals declared at module level: every call works on the same ones
SlotShared(i) == 1

\* `const allIssues = []; let page = 1; ...` inside the handler: every call
\* has locals of its own
Slot(i) == i

\* the text returned after the loop, for a given max_results
ListText(max_results, all, more, total) ==
    [NoResult EXCEPT !.kind = "ok", !.count = Len(all), !.items = all, !.more = more,
                     !.estimated = IF Truthy(total) /\ ~Truthy(max_results)
                                   THEN total ELSE Null]

PairInit ==
    /\ env \in {[GITHUB_AUTH_TOKEN |-> b] : b \in BOOLEAN}
    /\ server \in PairServers
    /\ tool = "none"
    /\ pc = "idle"
    /\ params = <<>>
    /\ allIssues = <<>>
    /\ page = 0
    /\ hasMorePages = FALSE
    /\ totalAvailable = Null
    /\ resultsPerPage = 0
    /\ updatePayload = <<>>
    /\ requestBody = <<>>
    /\ requests = <<>>
    /\ responses = <<>>
    /\ result = NoResult
    /\ frames = [i \in Invocations |-> IdleFrame]
    /\ heap = [s \in Invocations |-> NoLocals]

soloVars == <<env, server, tool, pc, params, listVars, updatePayload, requestBody,
              requests, responses, result>>

PairListCall(i, pp, mr) ==
    /\ frames[i].pc = "idle"
    /\ IF TokenMissing
       THEN /\ frames' = [frames EXCEPT ![i] =
                            [@ EXCEPT !.tool = "list_github_issues",
                                      !.params = [per_page |-> pp, max_results |-> mr],
                                      !.result = ConfigError, !.pc = "done"]]
            /\ UNCHANGED heap
       ELSE LET P == EffectivePerPage(PerPageOrDefault(pp))
            IN  /\ heap' = [heap EXCEPT ![Slot(i)] =
                              [@ EXCEPT !.allIssues = <<>>, !.page = 1,
                                        !.hasMorePages = FALSE, !.totalAvailable = Null,
                                        !.resultsPerPage = P]]
                /\ frames' = [frames EXCEPT ![i] =
                                [@ EXCEPT !.tool = "list_github_issues",
                                          !.params = [per_page |-> pp, max_results |-> mr],
                                          !.requests = Append(@, ListRequest(1, P)),
                                          !.pc = "fetch"]]
    /\ UNCHANGED soloVars

\* an answer to the listing's request in flight arrives and the handler runs
\* to its next fetch or to its return
PairListAnswer(i, resp) ==
    /\ frames[i].pc = "fetch" /\ frames[i].tool = "list_github_issues"
    /\ resp \in AnswersTo(frames[i].requests[Len(frames[i].requests)])
    /\ LET f == [frames[i] EXCEPT !.responses = Append(@, resp)]
           l == heap[Slot(i)]
           issues == resp.items
           pushed == Push(l.allIssues, issues)
           linkHeader == resp.link
           more == HasNext(linkHeader)
           total == EstimateTotal(linkHeader, l.totalAvailable, l.resultsPerPage)
           max_results == f.params.max_results
           return(text) == frames' = [frames EXCEPT ![i] =
                                         [f EXCEPT !.result = text, !.pc = "done"]]
       IN  IF resp.kind = "throw"
           THEN return(CaughtError("fetch failed")) /\ UNCHANGED heap
           ELSE IF resp.body = "notjson"
           THEN return(CaughtError("invalid json")) /\ UNCHANGED heap
           ELSE IF ~resp.ok
           THEN return(UpstreamError(resp.status, resp.body)) /\ UNCHANGED heap
           ELSE IF CapReached(max_results, Len(pushed))
           THEN LET kept == Splice(pushed, max_results.v)
                IN  /\ heap' = [heap EXCEPT ![Slot(i)] =
                                  [l EXCEPT !.allIssues = kept, !.hasMorePages = TRUE,
                                            !.totalAvailable = total]]
                    /\ return(ListText(max_results, kept, TRUE, total))
           ELSE IF LastPage(more, Len(issues), l.resultsPerPage)
           THEN /\ heap' = [heap EXCEPT ![Slot(i)] =
                              [l EXCEPT !.allIssues = pushed, !.hasMorePages = more,
                                        !.totalAvailable = total]]
                /\ return(ListText(max_results, pushed, more, total))
           ELSE \* bound: an arbitrary server is followed for MaxPairPages pages
                /\ l.page < MaxPairPages \/ server.mode = "faithful"
                /\ heap' = [heap EXCEPT ![Slot(i)] =
                              [l EXCEPT !.allIssues = pushed, !.hasMorePages = more,
                                        !.totalAvailable = total,
                                        !.page = NextPage(l.page)]]
                /\ frames' = [frames EXCEPT ![i] =
                                [f EXCEPT !.requests =
                                     Append(@, ListRequest(NextPage(l.page),
                                                           l.resultsPerPage))]]
    /\ UNCHANGED soloVars

PairUpdateCall(i, p) ==
    /\ frames[i].pc = "idle"
    /\ IF TokenMissing
       THEN /\ frames' = [frames EXCEPT ![i] =
                            [@ EXCEPT !.tool = "update_github_issue", !.params = p,
                                      !.result = ConfigError, !.pc = "done"]]
            /\ UNCHANGED heap
       ELSE LET payload == BuildUpdatePayload(p)
            IN  /\ heap' = [heap EXCEPT ![Slot(i)] = [@ EXCEPT !.updatePayload = payload]]
                /\ frames' = [frames EXCEPT ![i] =
                                IF NothingToUpdate(payload)
                                THEN [@ EXCEPT !.tool = "update_github_issue",
                                               !.params = p, !.result = NoFieldsError,
                                               !.pc = "done"]
                                ELSE [@ EXCEPT !.tool = "update_github_issue",
                                               !.params = p,
                                               !.requests = Append(@, UpdateRequest(payload)),
                                               !.pc = "fetch"]]
    /\ UNCHANGED soloVars

\* the text the update handler returns for an answer
UpdateText(p, resp) ==
    IF resp.kind = "throw" THEN CaughtError("fetch failed")
    ELSE IF resp.body = "notjson" THEN CaughtError("invalid json")
    ELSE IF ~resp.ok THEN UpstreamError(resp.status, resp.body)
    ELSE [NoResult EXCEPT !.kind = "ok", !.message = "Successfully updated",
                          !.items = UpdatedFields(p)]

PairUpdateAnswer(i, resp) ==
    /\ frames[i].pc = "fetch" /\ frames[i].tool = "update_github_issue"
    /\ resp \in AnswersTo(frames[i].requests[Len(frames[i].requests)])
    /\ frames' = [frames EXCEPT ![i] =
                    [@ EXCEPT !.responses = Append(@, resp),
                              !.result = UpdateText(frames[i].params, resp),
                              !.pc = "done"]]
    /\ UNCHANGED <<heap, soloVars>>

\* invocation 1 is a listing; invocation 2 is a listing or a mutation
PairNext ==
    \/ \E i \in Invocations, pp \in PairPerPageValues, mr \in PairMaxResultsValues :
          PairListCall(i, pp, mr)
    \/ \E i \in Invocations :
          \E resp \in (IF frames[i].pc = "fetch"
                       THEN AnswersTo(frames[i].requests[Len(frames[i].requests)])
                       ELSE {}) : PairListAnswer(i, resp)
    \/ \E p \in PairUpdateParams : PairUpdateCall(2, p)
    \/ \E resp \in (IF frames[2].pc = "fetch"
                    THEN AnswersTo(frames[2].requests[Len(frames[2].requests)])
                    ELSE {}) : PairUpdateAnswer(2, resp)

PairSpec == PairInit /\ [][PairNext]_vars

-----------------------------------------------------------------------------
(* The formatters: the projections the listings make of the records the    *)
(* service returned.  Under FormatSpec one behaviour formats one record,   *)
(* params, twice.                                                          *)

BodyLimit == 200

Whitespace == {" ", "\n"}
Ellipsis == <<".", ".", ".">>

\* what a TypeError inside the map leaves of the projection
Fault == [t |-> "fault"]

\* String.prototype.trim()
RECURSIVE TrimStart(_)
TrimStart(s) == IF s # <<>> /\ Head(s) \in Whitespace THEN TrimStart(Tail(s)) ELSE s
RECURSIVE TrimEnd(_)
TrimEnd(s) ==
    IF s # <<>> /\ s[Len(s)] \in Whitespace THEN TrimEnd(SubSeq(s, 1, Len(s) - 1)) ELSE s
Trim(s) == TrimEnd(TrimStart(s))

\* String.prototype.substring(start, end), 0 <= start <= end
Substring(s, start, end) == SubSeq(s, start + 1, Min(end, Len(s)))

\* `.replace(/\n/g, " ")`
ReplaceNewlines(s) == [i \in 1..Len(s) |-> IF s[i] = "\n" THEN " " ELSE s[i]]

\* the text "(No description)", kept as one token
NoDescription == <<"(No description)">>

\* `issue.body.trim()` with no test of issue.body before it
IssueBodyUnguarded(b) == IF b.t = "text" THEN Text(Trim(b.v)) ELSE Fault

\* `issue.body ? issue.body.trim() : "(No description)"`
IssueBody(b) == IF Truthy(b) THEN Text(Trim(b.v)) ELSE Text(NoDescription)

\* `body.length > 200 ? body.substring(0, 200) + "..." : body`
TruncateBody(body) ==
    IF Len(body) > BodyLimit THEN Substring(body, 0, BodyLimit) \o Ellipsis ELSE body

FormatIssue(issue) ==
    LET body == IssueBody(issue.body)
    IN  IF body.t = "fault" THEN Fault
        ELSE [t |-> "issue", number |-> issue.number, state |-> issue.state,
              body |-> ReplaceNewlines(TruncateBody(body.v))]

\* `x || d`
OrElse(x, d) == IF Truthy(x) THEN x ELSE d

FormatRepo(repo) ==
    [t |-> "repository", name |-> repo.name,
     description |-> OrElse(repo.description, Str("(No description)")),
     archived |-> IF Truthy(repo.archived) THEN " [ARCHIVED]" ELSE "",
     lang |-> IF Truthy(repo.language) THEN repo.language ELSE Str(""),
     topics |-> OrElse(repo.topics, Arr(<<>>))]

FormatOrg(org) ==
    [t |-> "organization", login |-> org.login,
     description |-> OrElse(org.description, Str("(No description)"))]

Format(item) ==
    CASE item.t = "issue" -> FormatIssue(item)
      [] item.t = "repository" -> FormatRepo(item)
      [] OTHER -> FormatOrg(item)

\* bodies around the limit: n characters with a newline among them, after
\* a space or not, before a newline or not
BodyLengths == {0, 1, BodyLimit - 1, BodyLimit, BodyLimit + 1}
BodyOf(lead, n, trail) ==
    lead \o [i \in 1..n |-> IF i = 2 THEN "\n" ELSE "a"] \o trail
IssueBodyValues ==
    {Undefined, Null}
    \cup {Text(BodyOf(lead, n, trail)) :
            lead \in {<<>>, <<" ">>}, n \in BodyLengths, trail \in {<<>>, <<"\n">>}}

RawIssues ==
    {[t |-> "issue", number |-> 1, state |-> st, body |-> b] :
        st \in {"open", "closed"}, b \in IssueBodyValues}
RawRepos ==
    {[t |-> "repository", name |-> "r", description |-> d, language |-> l,
      topics |-> tp, archived |-> a] :
        d \in {Undefined, Null, Str("d")}, l \in {Undefined, Null, Str("ts")},
        tp \in {Undefined, Arr(<<>>), Arr(<<"x">>)},
        a \in {Undefined, [t |-> "boolean", v |-> TRUE]}}
RawOrgs ==
    {[t |-> "organization", login |-> "o", description |-> d] :
        d \in {Undefined, Null, Str(""), Str("d")}}
RawItems == RawIssues \cup RawRepos \cup RawOrgs

FormatInit ==
    /\ params \in RawItems
    /\ env = [GITHUB_AUTH_TOKEN |-> TRUE]
    /\ server = [mode |-> "faithful", avail |-> 1, tail |-> "page"]
    /\ tool = "none"
    /\ pc = "idle"
    /\ allIssues = <<>>
    /\ page = 0
    /\ hasMorePages = FALSE
    /\ totalAvailable = Null
    /\ resultsPerPage = 0
    /\ updatePayload = <<>>
    /\ requestBody = <<>>
    /\ frames = <<>>
    /\ heap = <<>>
    /\ requests = <<>>
    /\ responses = <<>>
    /\ result = NoResult

\* the map over the records runs inside the handler's try: a fault ends in
\* the catch block's text
FormatOnce ==
    /\ pc = "idle"
    /\ tool' = "format"
    /\ LET out == Format(params)
       IN  IF out.t = "fault"
           THEN result' = CaughtError("TypeError") /\ pc' = "done"
           ELSE /\ result' = [NoResult EXCEPT !.kind = "ok", !.count = 1,
                                              !.items = <<out>>]
                /\ pc' = "formatted"
    /\ UNCHANGED <<pairVars, requestBody, env, server, params, listVars, updatePayload,
                   requests, responses>>

FormatAgain ==
    /\ pc = "formatted" /\ tool = "format"
    /\ result' = [result EXCEPT !.count = 2, !.items = Append(@, Format(params))]
    /\ pc' = "done"
    /\ UNCHANGED <<pairVars, requestBody, env, server, tool, params, listVars,
                   updatePayload, requests, responses>>

FormatNext == FormatOnce \/ FormatAgain

FormatSpec == FormatInit /\ [][FormatNext]_vars

-----------------------------------------------------------------------------
(* The two earlier copies of the issue listing that index.ts keeps, each   *)
(* as a function of the parameters and of the answers it is given: the     *)
(* requests it sends, the items it ends with and how it ends ("none": the  *)
(* next answer is awaited).                                                *)

CopyEnd(reqs, items, kind, status, message) ==
    [requests |-> reqs, items |-> items, kind |-> kind, status |-> status,
     message |-> message]

\* index.ts 234-244 and 683-693, and the catch blocks: how a copy ends on an
\* answer that is not a page of items
CopyFailure(reqs, resp) ==
    IF resp.kind = "throw" THEN CopyEnd(reqs, <<>>, "exception", 0, "fetch failed")
    ELSE IF resp.body = "notjson" THEN CopyEnd(reqs, <<>>, "exception", 0, "invalid json")
    ELSE CopyEnd(reqs, <<>>, "upstream", resp.status,
                 IF resp.body = "message" THEN "message" ELSE "raw body")

CopyRequest(p, P) ==
    [tool |-> "list_github_issues", method |-> "GET", accept |-> "v3", page |-> p,
     per_page |-> P, body |-> <<>>]

\* index.ts 208-274: the loop of the first copy
RECURSIVE FirstCopyLoop(_, _, _, _, _, _)
FirstCopyLoop(max_results, resultsPerPage_, all, p, answers, reqs) ==
    IF answers = <<>> THEN CopyEnd(reqs, all, "none", 0, "")
    ELSE LET response == Head(answers)
             issues == response.items
             pushed == all \o issues
             linkHeader == response.link
             more == IF linkHeader.present THEN linkHeader.next ELSE FALSE
         IN  IF response.kind = "throw" \/ ~response.ok \/ response.body # "array"
             THEN CopyFailure(reqs, response)
             ELSE IF Truthy(max_results) /\ Len(pushed) >= max_results.v
             THEN CopyEnd(reqs, Splice(pushed, max_results.v), "ok", 0, "")
             ELSE IF ~more \/ Len(issues) < resultsPerPage_
             THEN CopyEnd(reqs, pushed, "ok", 0, "")
             ELSE FirstCopyLoop(max_results, resultsPerPage_, pushed, p + 1,
                                Tail(answers),
                                Append(reqs, CopyRequest(p + 1, resultsPerPage_)))

\* index.ts 657-715: the loop of the second copy, which tests the cap
\* before it reads the Link header and keeps no hasMorePages
RECURSIVE SecondCopyLoop(_, _, _, _, _, _)
SecondCopyLoop(max_results, resultsPerPage_, all, p, answers, reqs) ==
    IF answers = <<>> THEN CopyEnd(reqs, all, "none", 0, "")
    ELSE LET response == Head(answers)
             issues == response.items
             pushed == all \o issues
             linkHeader == response.link
         IN  IF response.kind = "throw" \/ ~response.ok \/ response.body # "array"
             THEN CopyFailure(reqs, response)
             ELSE IF Truthy(max_results) /\ Len(pushed) >= max_results.v
             THEN CopyEnd(reqs, Splice(pushed, max_results.v), "ok", 0, "")
             ELSE IF ~linkHeader.present \/ ~linkHeader.next
                     \/ Len(issues) < resultsPerPage_
             THEN CopyEnd(reqs, pushed, "ok", 0, "")
             ELSE SecondCopyLoop(max_results, resultsPerPage_, pushed, p + 1,
                                 Tail(answers),
                                 Append(reqs, CopyRequest(p + 1, resultsPerPage_)))

\* index.ts 176-206: `per_page = 30`, the credential check, the locals
FirstCopy(p, answers) ==
    IF ~env.GITHUB_AUTH_TOKEN
    THEN CopyEnd(<<>>, <<>>, "config", 0,
                 "GITHUB_AUTH_TOKEN environment variable is not set")
    ELSE LET per_page == IF p.per_page = Undefined THEN 30 ELSE p.per_page.v
             P == Min(per_page, 100)
         IN  FirstCopyLoop(p.max_results, P, <<>>, 1, answers, <<CopyRequest(1, P)>>)

\* index.ts 627-655
SecondCopy(p, answers) ==
    IF ~env.GITHUB_AUTH_TOKEN
    THEN CopyEnd(<<>>, <<>>, "config", 0,
                 "GITHUB_AUTH_TOKEN environment variable is not set")
    ELSE LET per_page == IF p.per_page = Undefined THEN 30 ELSE p.per_page.v
             P == Min(per_page, 100)
         IN  SecondCopyLoop(p.max_results, P, <<>>, 1, answers, <<CopyRequest(1, P)>>)

-----------------------------------------------------------------------------
(* Vocabulary of the properties.                                           *)

RECURSIVE Concat(_)
Concat(ss) == IF ss = <<>> THEN <<>> ELSE Head(ss) \o Concat(Tail(ss))

IsPrefix(a, b) == Len(a) <= Len(b) /\ a = SubSeq(b, 1, Len(a))

Listing == tool = "list_github_issues"
Updating == tool = "update_github_issue"
Faithful == server.mode = "faithful"

\* the listing returned its text after the loop, not an error
ListOk == Listing /\ pc = "done" /\ result.kind = "ok"

IsFailure(resp) == resp.kind = "throw" \/ ~resp.ok \/ resp.body = "notjson"

\* the pages received so far, and how many items each held
FetchedPages == [i \in 1..Len(responses) |-> responses[i].items]
FetchSizes == [i \in 1..Len(responses) |-> Len(responses[i].items)]

Cap == params.max_results
Supplied(f) == params[f] # Undefined

-----------------------------------------------------------------------------
(* The properties.                                                         *)

\* C1: against a server holding A items, a listing asked for at most C
\* items (C >= 0) returns exactly min(C, A) items.
C1_LengthIsMinCapAvail ==
    (ListOk /\ Faithful /\ Cap # Undefined /\ Cap.v >= 0)
        => Len(result.items) = Min(Cap.v, server.avail)

\* C2: a listing that succeeded ends with hasMore true whenever more items
\* are available than the cap (C >= 0) allows, and whenever the last page
\* fetched carried a "next" relation.
C2_HasMoreWhenMoreExists ==
    ListOk =>
        /\ (Faithful /\ Cap # Undefined /\ Cap.v >= 0 /\ server.avail > Cap.v)
               => hasMorePages
        /\ (responses[Len(responses)].link.present /\ responses[Len(responses)].link.next)
               => hasMorePages

\* C3: the items returned are the concatenation of the fetched pages in
\* fetch order, or a prefix of it when a cap cut it; while the loop runs the
\* aggregation is that concatenation.
C3_OrderIsConcatenation ==
    /\ (Listing /\ pc = "fetch") => allIssues = Concat(FetchedPages)
    /\ ListOk =>
          /\ IsPrefix(result.items, Concat(FetchedPages))
          /\ Len(result.items) < Len(Concat(FetchedPages))
                => (Truthy(Cap) /\ Len(Concat(FetchedPages)) > Cap.v)

C3_Witness ==
    /\ ListOk
    /\ Len(responses) >= 2
    /\ Len(result.items) > Len(responses[1].items)
    /\ Len(result.items) < Len(Concat(FetchedPages))

C5_FailureDiscardsItems ==
    (Listing /\ pc = "done" /\ responses # <<>>
             /\ IsFailure(responses[Len(responses)]))
        => /\ result.kind \in {"upstream", "exception"}
           /\ result.items = <<>>
           /\ result.count = 0
           /\ (responses[1].status = 404 /\ responses[1].body \in {"message", "nomessage"})
                 => (result.kind = "upstream" /\ result.status = 404)

C5_Witness ==
    /\ Listing /\ pc = "done"
    /\ Len(responses) >= 2
    /\ allIssues # <<>>
    /\ ~responses[Len(responses)].ok /\ responses[Len(responses)].status = 404
    /\ result.kind = "upstream"

\* C6: the requests of a listing are for pages 1, 2, 3, ... in this order,
\* at most one is unanswered at any time, only the last answer can be a
\* failure, and no request follows it.
C6_SequentialPages ==
    Listing =>
        /\ \A i \in 1..Len(requests) : requests[i].page = i
        /\ Len(requests) = Len(responses) + (IF pc = "fetch" THEN 1 ELSE 0)
        /\ \A i \in 1..Len(responses) :
              IsFailure(responses[i])
                  => (i = Len(responses) /\ pc = "done" /\ Len(requests) = i)

C6_Witness ==
    /\ Listing /\ pc = "done"
    /\ Len(requests) = 3
    /\ IsFailure(responses[3])

\* C7: Scenario A: 45 items, per_page 20, no cap: three fetches of 20, 20
\* and 5 items, all 45 items returned, hasMore false.
C7_ScenarioA ==
    (ListOk /\ Faithful /\ server.avail = 45
            /\ params.per_page = Num(20) /\ Cap = Undefined)
        => /\ Len(requests) = 3
           /\ FetchSizes = <<20, 20, 5>>
           /\ result.items = [i \in 1..45 |-> i]
           /\ hasMorePages = FALSE /\ result.more = FALSE

C7_Witness ==
    /\ ListOk /\ Faithful /\ server.avail = 45
    /\ params.per_page = Num(20) /\ Cap = Undefined
    /\ Len(result.items) = 45

\* C8: Scenario B: 45 items, per_page 20, cap 25: two fetches of 20 items,
\* the first 25 items returned, hasMore true.
C8_ScenarioB ==
    (ListOk /\ Faithful /\ server.avail = 45
            /\ params.per_page = Num(20) /\ Cap = Num(25))
        => /\ Len(requests) = 2
           /\ FetchSizes = <<20, 20>>
           /\ result.items = [i \in 1..25 |-> i]
           /\ hasMorePages = TRUE /\ result.more = TRUE

C8_Witness ==
    /\ ListOk /\ Faithful /\ server.avail = 45
    /\ params.per_page = Num(20) /\ Cap = Num(25)
    /\ Len(result.items) = 25

\* the update handler got past the credential check and built its payload
PayloadBuilt == Updating /\ env.GITHUB_AUTH_TOKEN

\* the payload in the body of the PATCH, when one was sent
PatchSent == Updating /\ requests # <<>>
PatchBody == requests[1].body

HasField(obj, f, v) == f \in DOMAIN obj /\ obj[f] = v

\* C9 as stated: every updatable field supplied with a value is in the
\* payload with that value.
C9_SuppliedFieldInPayload ==
    PayloadBuilt =>
        \A f \in Fields :
            (Supplied(f) /\ params[f] # Null) => HasField(updatePayload, f, params[f])

\* C9 amended: every updatable field other than state_reason that was
\* supplied with a value is in the payload, and in the body of the PATCH,
\* with that value; state_reason is, when the supplied state is "closed".
C9_SuppliedFieldInPayloadUnlessStateReason ==
    PayloadBuilt =>
        \A f \in Fields :
            (/\ Supplied(f) /\ params[f] # Null
             /\ f = "state_reason" => params.state = Str("closed"))
                => /\ HasField(updatePayload, f, params[f])
                   /\ PatchSent /\ HasField(PatchBody, f, params[f])

C9_Witness ==
    /\ PatchSent
    /\ params.title = Str("") /\ params.milestone = Num(0)
    /\ params.state = Str("closed") /\ params.state_reason = Str("completed")
    /\ HasField(PatchBody, "state_reason", Str("completed"))

\* C10: the payload of an update, and the body of its PATCH, have no key
\* for a field the caller did not supply.
C10_PayloadKeysWereSupplied ==
    /\ PayloadBuilt => \A f \in ObjectKeys(updatePayload) : Supplied(f)
    /\ PatchSent => \A f \in DOMAIN PatchBody : Supplied(f)

C10_Witness ==
    /\ PatchSent
    /\ params.state = Str("closed") /\ ~Supplied("state_reason")
    /\ ~Supplied("milestone") /\ ~Supplied("title")
    /\ DOMAIN PatchBody = {"state"}

\* C11: an update with milestone null and nothing else sends exactly
\* {milestone: null}; an update that leaves milestone out has no milestone
\* key in its payload.
C11_NullMilestoneIsSent ==
    PayloadBuilt =>
        /\ (params.milestone = Null /\ \A f \in Fields \ {"milestone"} : ~Supplied(f))
              => /\ updatePayload = [milestone |-> Null]
                 /\ PatchSent /\ PatchBody = [milestone |-> Null]
        /\ ~Supplied("milestone")
              => /\ "milestone" \notin DOMAIN updatePayload
                 /\ PatchSent => "milestone" \notin DOMAIN PatchBody

C11_Witness ==
    /\ PatchSent
    /\ params.milestone = Null
    /\ DOMAIN PatchBody = {"milestone"} /\ PatchBody["milestone"] = Null

\* C12: an update whose payload is empty reports the no-op and sends
\* nothing; a PATCH is sent only with a payload that has a key.
C12_EmptyPayloadIsNoOp ==
    PayloadBuilt =>
        /\ ObjectKeys(updatePayload) = {}
              => (pc = "done" /\ result.kind = "noop" /\ requests = <<>>)
        /\ requests # <<>>
              => (ObjectKeys(updatePayload) # {} /\ DOMAIN PatchBody # {})

C12_Witness ==
    /\ PayloadBuilt /\ pc = "done"
    /\ Supplied("state_reason")
    /\ result.kind = "noop" /\ requests = <<>>

Creating == tool = "create_github_issue"

\* C13: the payload of a create has the title, and has each optional field
\* exactly when the caller supplied it.
C13_CreateFieldsIffSupplied ==
    (Creating /\ requests # <<>>) =>
        /\ HasField(requests[1].body, "title", params.title)
        /\ \A f \in CreateFields \ {"title"} :
              /\ f \in DOMAIN requestBody <=> Supplied(f)
              /\ f \in DOMAIN requests[1].body <=> Supplied(f)

\* C14: without the credential every operation returns the configuration
\* error and sends no request.
C14_NoTokenNoRequest ==
    (tool # "none" /\ ~env.GITHUB_AUTH_TOKEN)
        => /\ pc = "done"
           /\ result = ConfigError
           /\ requests = <<>> /\ responses = <<>>

C14_Witness ==
    /\ tool = "get_github_issue"
    /\ ~env.GITHUB_AUTH_TOKEN
    /\ result.kind = "config"

TextKinds == {"ok", "config", "noop", "upstream", "exception"}

\* C15: every invocation that ended returned a text; no exception leaves a
\* handler; a rejected fetch is reported as an exception, never in the
\* form of an upstream error, which only a non-success status produces.
C15_AlwaysATextResult ==
    /\ pc \in {"idle", "fetch", "done"}
    /\ result.kind # "fault"
    /\ pc = "done" => result.kind \in TextKinds
    /\ (pc = "done" /\ responses # <<>>) =>
          LET last == responses[Len(responses)]
          IN  /\ last.kind = "throw" => (result.kind = "exception" /\ result.status = 0)
              /\ result.kind = "upstream" => (last.kind = "http" /\ ~last.ok)

C15_Witness ==
    /\ Listing /\ pc = "done"
    /\ Len(responses) = 2
    /\ responses[2].kind = "throw"
    /\ result.kind = "exception"

\* C16: a non-success status is reported with that status and the upstream
\* message, or the raw body when there is no message, whatever the body.
C16_UpstreamCarriesStatus ==
    (pc = "done" /\ responses # <<>>
         /\ responses[Len(responses)].kind = "http" /\ ~responses[Len(responses)].ok)
        => /\ result.kind = "upstream"
           /\ result.status = responses[Len(responses)].status
           /\ result.message = IF responses[Len(responses)].body = "message"
                               THEN "message" ELSE "raw body"

SinglePage == tool \in {"list_github_repositories", "get_github_organisations"}

\* C17 as stated: every listing starts at page 1 and goes on to the next
\* page unless the page was short or carried no "next" relation.
C17_EveryListingPaginates ==
    (SinglePage /\ requests # <<>>) =>
        /\ requests[1].page = 1
        /\ (pc = "done" /\ result.kind = "ok") =>
              \/ ~(responses[Len(responses)].link.present
                     /\ responses[Len(responses)].link.next)
              \/ Len(responses[Len(responses)].items) < requests[1].per_page

\* C17 amended: the issue listing starts at page 1 and stops only on the
\* cap, a missing "next" relation, a short page or a failure; the listings
\* of repositories and of organisations fetch one page, the one asked for,
\* and return its items and whether it carried a "next" relation.
C17_OnlyIssuesPaginate ==
    /\ (Listing /\ requests # <<>>) => requests[1].page = 1
    /\ ListOk =>
          \/ (Truthy(Cap) /\ Len(Concat(FetchedPages)) >= Cap.v)
          \/ ~(responses[Len(responses)].link.present
                 /\ responses[Len(responses)].link.next)
          \/ Len(responses[Len(responses)].items) < resultsPerPage
    /\ SinglePage =>
          /\ Len(requests) <= 1
          /\ requests # <<>> =>
                requests[1].page = (IF params.page = Undefined THEN 1 ELSE params.page.v)
          /\ (pc = "done" /\ result.kind = "ok") =>
                /\ result.items = responses[1].items
                /\ result.more = (responses[1].link.present /\ responses[1].link.next)

C17_Witness ==
    /\ tool = "list_github_repositories"
    /\ pc = "done" /\ result.kind = "ok"
    /\ params.page = Num(2) /\ requests[1].page = 2
    /\ result.more
    /\ Len(result.items) = requests[1].per_page

\* C20: the paginator goes from INIT to FETCHING; from FETCHING it goes on
\* to the next page (the page counter one higher, one more request), or
\* ends in DONE or in ERROR; after DONE and ERROR nothing is fetched and the
\* aggregation stays.
C20_PaginatorStateMachine ==
    [][ /\ (pc = "idle" /\ tool' = "list_github_issues")
              => \/ pc' = "fetch" /\ page' = 1 /\ allIssues' = <<>> /\ Len(requests') = 1
                 \/ pc' = "done" /\ result'.kind = "config" /\ requests' = requests
        /\ (Listing /\ pc = "fetch")
              => \/ /\ pc' = "fetch"
                    /\ page' = page + 1
                    /\ Len(requests') = Len(requests) + 1
                    /\ requests'[Len(requests')].page = page'
                    /\ result' = result
                 \/ /\ pc' = "done" /\ result'.kind = "ok"
                    /\ page' = page /\ requests' = requests
                 \/ /\ pc' = "done" /\ result'.kind \in {"upstream", "exception"}
                    /\ page' = page /\ requests' = requests /\ allIssues' = allIssues
        /\ (Listing /\ pc = "done")
              => (pc' = "done" /\ requests' = requests /\ allIssues' = allIssues)
      ]_vars

C20_Witness ==
    /\ ListOk
    /\ page = 3 /\ Len(requests) = 3

\* C18: every issue listing that was started eventually returns, whatever
\* the service answers, a service that reports a "next" relation on every
\* full page included.
C18_EventuallyTerminates == (tool = "list_github_issues") ~> (pc = "done")

-----------------------------------------------------------------------------
(* An invocation run alone: the handler as a function of its parameters    *)
(* and of the answers it is given.                                         *)

RECURSIVE PaginateAlone(_, _, _, _, _, _, _)
PaginateAlone(max_results, P, all, p, total, answers, reqs) ==
    IF answers = <<>> THEN [requests |-> reqs, result |-> NoResult]
    ELSE LET resp == Head(answers)
             pushed == all \o resp.items
             more == resp.link.present /\ resp.link.next
             tot == EstimateTotal(resp.link, total, P)
             ret(text) == [requests |-> reqs, result |-> text]
         IN  IF resp.kind = "throw" THEN ret(CaughtError("fetch failed"))
             ELSE IF resp.body = "notjson" THEN ret(CaughtError("invalid json"))
             ELSE IF ~resp.ok THEN ret(UpstreamError(resp.status, resp.body))
             ELSE IF Truthy(max_results) /\ Len(pushed) >= max_results.v
             THEN ret(ListText(max_results, Splice(pushed, max_results.v), TRUE, tot))
             ELSE IF ~more \/ Len(resp.items) < P
             THEN ret(ListText(max_results, pushed, more, tot))
             ELSE PaginateAlone(max_results, P, pushed, p + 1, tot, Tail(answers),
                                Append(reqs, ListRequest(p + 1, P)))

ListAlone(p, answers) ==
    IF ~env.GITHUB_AUTH_TOKEN THEN [requests |-> <<>>, result |-> ConfigError]
    ELSE LET P == Min(IF p.per_page = Undefined THEN DefaultPerPage ELSE p.per_page.v,
                      MaxPerPage)
         IN  PaginateAlone(p.max_results, P, <<>>, 1, Null, answers,
                           <<ListRequest(1, P)>>)

UpdateAlone(p, answers) ==
    IF ~env.GITHUB_AUTH_TOKEN THEN [requests |-> <<>>, result |-> ConfigError]
    ELSE LET payload == BuildUpdatePayload(p)
         IN  IF DOMAIN payload = {} THEN [requests |-> <<>>, result |-> NoFieldsError]
             ELSE [requests |-> <<UpdateRequest(payload)>>,
                   result |-> IF answers = <<>> THEN NoResult
                              ELSE UpdateText(p, Head(answers))]

Alone(f) ==
    IF f.tool = "list_github_issues" THEN ListAlone(f.params, f.responses)
    ELSE UpdateAlone(f.params, f.responses)

\* C19: whatever the interleaving of two invocations, the requests each has
\* sent and the result each has returned are those of the same invocation
\* run alone on the answers it was given.
C19_InterleavingIsInvisible ==
    frames # <<>> =>
        \A i \in Invocations :
            frames[i].tool # "none" =>
                /\ frames[i].requests = Alone(frames[i]).requests
                /\ frames[i].result = Alone(frames[i]).result

\* two listings with different parameters, both past their first page and
\* both waiting for their second
C19_Witness ==
    /\ frames # <<>>
    /\ \A i \in Invocations :
          /\ frames[i].tool = "list_github_issues"
          /\ frames[i].pc = "fetch"
          /\ Len(frames[i].requests) = 2
    /\ frames[1].params # frames[2].params

-----------------------------------------------------------------------------
(* The loop body of the paginator, decision by decision.                   *)

\* the last answer received was a page of items
PageArrived ==
    Listing /\ responses # <<>> /\ ~IsFailure(responses[Len(responses)])

LastAnswer == responses[Len(responses)]
Collected == Concat(FetchedPages)

\* C21: once a cap (max_results >= 0) is set and the pages fetched hold at
\* least cap items, the listing has stopped with exactly the first cap
\* items, hasMore true whatever the last Link header said, and no request
\* beyond the pages answered.
C21_CapTruncatesAndStops ==
    (PageArrived /\ Cap # Undefined /\ Cap.v >= 0 /\ Len(Collected) >= Cap.v)
        => /\ pc = "done" /\ result.kind = "ok"
           /\ allIssues = SubSeq(Collected, 1, Cap.v)
           /\ result.items = allIssues
           /\ hasMorePages /\ result.more
           /\ Len(requests) = Len(responses)

\* C22: after a page that did not reach the cap, the listing has asked for
\* the next page exactly when the page carried a "next" relation and held
\* at least resultsPerPage items; otherwise it has stopped, and its hasMore
\* is the "next" relation of that page (true on a short page with "next").
C22_NextPageIffNextAndFullPage ==
    (PageArrived /\ ~(Truthy(Cap) /\ Len(Collected) >= Cap.v))
        => LET next == LastAnswer.link.present /\ LastAnswer.link.next
               full == Len(LastAnswer.items) >= requests[Len(responses)].per_page
           IN  /\ (pc = "fetch") <=> (next /\ full)
               /\ pc = "fetch" => /\ Len(requests) = Len(responses) + 1
                                  /\ requests[Len(requests)].page = Len(responses) + 1
               /\ pc # "fetch" => /\ pc = "done" /\ result.kind = "ok"
                                  /\ Len(requests) = Len(responses)
                                  /\ hasMorePages = next /\ result.more = next

\* a short second page that still carried a "next" relation
C22_Witness ==
    /\ ListOk /\ Cap = Undefined
    /\ Len(responses) = 2
    /\ LastAnswer.link.present /\ LastAnswer.link.next
    /\ Len(LastAnswer.items) < resultsPerPage
    /\ result.more

\* the answers whose Link header carried a "last" relation
WithLast ==
    {i \in 1..Len(responses) :
        /\ ~IsFailure(responses[i])
        /\ responses[i].link.present /\ responses[i].link.last # 0}

FirstWithLast == CHOOSE i \in WithLast : \A j \in WithLast : i <= j

\* C23: the estimated total of a listing is unset as long as no page carried
\* a "last" relation, and from the first page that did it is the page
\* number of that relation times resultsPerPage, whatever came later.
C23_EstimateIsFirstLastTimesPageSize ==
    (Listing /\ env.GITHUB_AUTH_TOKEN)
        => IF WithLast = {} THEN totalAvailable = Null
           ELSE totalAvailable =
                    Num(responses[FirstWithLast].link.last * resultsPerPage)

-----------------------------------------------------------------------------
(* The formatters.                                                         *)

Formatted == tool = "format" /\ pc # "idle"
IssueFormatted == Formatted /\ params.t = "issue"
FlatChar(c) == IF c = "\n" THEN " " ELSE c

\* every record gives a projection, and the second formatting of a record
\* gives what the first gave
TotalAndRepeatable ==
    Formatted =>
        /\ result.kind = "ok"
        /\ \A i \in 1..Len(result.items) : result.items[i].t = params.t
        /\ pc = "done" => (Len(result.items) = 2 /\ result.items[1] = result.items[2])

Inner(s) ==
    LET solid == {i \in 1..Len(s) : s[i] \notin {" ", "\n"}}
    IN  IF solid = {} THEN <<>>
        ELSE SubSeq(s, CHOOSE i \in solid : \A j \in solid : i <= j,
                       CHOOSE i \in solid : \A j \in solid : i >= j)

-----------------------------------------------------------------------------
(* The cap of the paginator.                                               *)

\* the listing under way, had it been called without max_results
WithoutCap == ListAlone([params EXCEPT !.max_results = Undefined], responses)

NoOversizedPage ==
    \A i \in 1..Len(responses) : Len(responses[i].items) <= requests[i].per_page

PositiveCap == Cap # Undefined /\ Cap.v > 0

\* C26: unless the service sent more items than asked for on some page,
\* whenever page k is being requested the aggregation holds exactly
\* (k - 1) * resultsPerPage items, and fewer than max_results items when
\* that is positive.
C26_LoopInvariant ==
    (Listing /\ pc = "fetch" /\ NoOversizedPage)
        => /\ requests[Len(requests)].page = page
           /\ Len(allIssues) = (page - 1) * resultsPerPage
           /\ PositiveCap => Len(allIssues) < Cap.v

C26_Witness ==
    /\ Listing /\ pc = "fetch" /\ NoOversizedPage
    /\ page = 3 /\ resultsPerPage = 2 /\ Len(allIssues) = 4
    /\ Cap = Num(5)

\* C27: a listing with a positive max_results C sends at most
\* ceil(C / resultsPerPage) requests.
C27_RequestsBoundedByCap ==
    (Listing /\ PositiveCap /\ requests # <<>>)
        => Len(requests) * resultsPerPage < Cap.v + resultsPerPage

\* five items wanted, two per page: the third request was sent, and the
\* service sent more than was asked for besides
C27_Witness ==
    /\ ListOk /\ Cap = Num(5) /\ resultsPerPage = 2
    /\ Len(requests) = 3
    /\ ~NoOversizedPage

-----------------------------------------------------------------------------
(* state_reason, and the text of the listing.                              *)

OnlyStateReasonSupplied ==
    Supplied("state_reason") /\ \A f \in Fields \ {"state_reason"} : ~Supplied(f)

\* C28: state_reason is in the payload of an update exactly when it was
\* supplied together with state "closed", and then with the value supplied;
\* an update that supplies state_reason alone ends as the no-op error and
\* sends nothing.
C28_StateReasonOnlyWhenClosing ==
    PayloadBuilt =>
        /\ ("state_reason" \in DOMAIN updatePayload)
              <=> (Supplied("state_reason") /\ params.state = Str("closed"))
        /\ "state_reason" \in DOMAIN updatePayload
              => updatePayload["state_reason"] = params.state_reason
        /\ PatchSent => (DOMAIN PatchBody) \subseteq (DOMAIN updatePayload)
        /\ OnlyStateReasonSupplied
              => (pc = "done" /\ result.kind = "noop" /\ requests = <<>>)

\* a state_reason supplied with state "open": the PATCH went out without it
C28_Witness ==
    /\ PatchSent
    /\ Supplied("state_reason") /\ params.state = Str("open")
    /\ "state" \in DOMAIN PatchBody
    /\ "state_reason" \notin DOMAIN PatchBody

NonZeroCap == Cap # Undefined /\ Cap.v # 0

\* C29: the text of a listing says "more results available" exactly when
\* hasMorePages ended true, gives an estimated total only if one was
\* computed and no non-zero max_results was given, and counts the items it
\* lists.
C29_TextMatchesLoopState ==
    ListOk =>
        /\ result.more = hasMorePages
        /\ result.estimated # Null
              => (totalAvailable # Null /\ result.estimated = totalAvailable /\ ~NonZeroCap)
        /\ result.items = allIssues
        /\ result.count = Len(result.items)

\* an estimate was computed, a cap was given: the text has no estimate
C29_Witness ==
    /\ ListOk /\ PositiveCap
    /\ totalAvailable # Null
    /\ result.estimated = Null
    /\ result.more /\ result.count = Cap.v

-----------------------------------------------------------------------------
(* The copies of the paginator.                                            *)

\* a copy, given the parameters and the answers of the listing under way,
\* has sent the same requests and stands or has ended where the listing does
AgreesWith(copy) ==
    /\ copy.requests = requests
    /\ copy.kind = (IF pc = "fetch" THEN "none" ELSE result.kind)
    /\ pc = "done" => /\ copy.items = result.items
                      /\ copy.status = result.status
                      /\ copy.message = result.message

\* C30: on every per_page, every max_results and every sequence of answers
\* the handler of list-github-issues.ts and the two copies of index.ts send
\* the same page requests and end with the same items, or with an error in
\* the same cases.
C30_CopiesAgree ==
    Listing => /\ AgreesWith(FirstCopy(params, responses))
               /\ AgreesWith(SecondCopy(params, responses))

\* three pages fetched and the last one cut by the cap, in all three
C30_Witness ==
    /\ ListOk /\ PositiveCap
    /\ Len(requests) = 3
    /\ Len(result.items) < Len(Collected)
    /\ SecondCopy(params, responses).items = result.items
    /\ FirstCopy(params, responses).requests = requests

====
